---- MODULE Spec2Model ----
(***************************************************************************)
(* Model of the Melody AI backend relay (src/app.py): the FastAPI handlers *)
(* generate_music, home, health_check, receive_music and get_music, and    *)
(* the process-wide dictionary music_store they share.                     *)
(*                                                                         *)
(* The handlers run on one asyncio event loop: a handler runs atomically   *)
(* from one await to the next, so every action below is the code between   *)
(* two suspension points of one handler.                                    *)
(***************************************************************************)
EXTENDS Integers, Sequences, FiniteSets, TLC

VARIABLES
    music_store,  \* app.py:7, the dict task_id -> audio URL
    reqs,         \* the generate_music handlers in flight: position and locals
    health,       \* the health_check handler: "idle" or "waiting" at its await
    last,         \* history: the most recent handler step, with its input and its answer
    submitted,    \* history: task identifiers the upstream supplied on an accepted submission
    accepted,     \* history: per task identifier, the URL of the latest callback answered "stored"
    log           \* history, kept by SpecConcurrent: the callbacks answered "stored", in the
                  \* order their handlers ran, as pairs <<task_id, music_url>>

vars == <<music_store, reqs, health, last, submitted, accepted, log>>

----------------------------------------------------------------------------
(* Bounds and input domains *)

\* longest prompt tried
MaxLen == 2

\* longest log of stored callbacks SpecConcurrent records
MaxLog == 3

\* retries = 3, app.py:45
retries == 3

\* characters a prompt is made of: a whitespace character and a letter
Whitespace == {" "}
Chars == Whitespace \cup {"a"}

RECURSIVE SeqsUpTo(_, _)
SeqsUpTo(S, n) ==
    IF n = 0 THEN {<<>>}
    ELSE LET shorter == SeqsUpTo(S, n - 1)
         IN shorter \cup {Append(s, c) : s \in {t \in shorter : Len(t) = n - 1}, c \in S}

Prompts == SeqsUpTo(Chars, MaxLen)

TaskIds == {"t1", "t2"}
URLs == {"u1", "u2"}

\* the generate_music handlers that can be in flight, and the one Spec runs
Reqs == {"r1", "r2"}
Single == {"r1"}

\* Python's None, as a value of a dict or of a response field
None == "None"

----------------------------------------------------------------------------
(* Python helpers *)

\* bool(v) for the values that occur: None and "" are falsy
Truthy(v) == v # None /\ v # ""

\* dict.get(k): the value, or None when the key is absent
Get(d, k) == IF k \in DOMAIN d THEN d[k] ELSE None

\* variant of SetItem: the dict is rebound to one holding the new entry only
SetItemAlone(d, k, v) == [x \in {k} |-> v]

\* d[k] = v on a dict
SetItem(d, k, v) == [x \in (DOMAIN d) \cup {k} |-> IF x = k THEN v ELSE d[x]]

\* {} : the empty dict
EmptyDict == <<>>

\* str.strip(): drop leading and trailing whitespace
RECURSIVE lstrip(_)
lstrip(s) == IF s # <<>> /\ Head(s) \in Whitespace THEN lstrip(Tail(s)) ELSE s

RECURSIVE rstrip(_)
rstrip(s) ==
    IF s # <<>> /\ s[Len(s)] \in Whitespace THEN rstrip(SubSeq(s, 1, Len(s) - 1)) ELSE s

strip(s) == rstrip(lstrip(s))

----------------------------------------------------------------------------
(* What the upstream can answer to the POST of generate_music (app.py:52) *)

\* the body of an upstream response: not JSON, a JSON array, or a JSON object
NotJson == [kind |-> "notjson"]
JsonArray == [kind |-> "array"]
JsonObject(o) == [kind |-> "object", obj |-> o]

\* the upstream's quota-exhaustion answer, {code: 429}
QuotaObject == [code |-> 429]

UpstreamObjects ==
    {[audio_url |-> u] : u \in URLs \cup {""}}
    \cup {[data |-> [id |-> t]] : t \in TaskIds}
    \cup {QuotaObject, EmptyDict}

UpstreamBodies == {NotJson, JsonArray} \cup {JsonObject(o) : o \in UpstreamObjects}

\* the call raised (connection error, timeout)
TransportError == [kind |-> "exception"]

\* every body under a JSON content type, with status 200 and with an error status;
\* under text/html a page (not JSON) and a JSON object that carries an audio URL
UpstreamResponses ==
    {TransportError}
    \cup {[kind |-> "response", status |-> st, ctype |-> "application/json", body |-> b] :
            st \in {200, 429}, b \in UpstreamBodies}
    \cup {[kind |-> "response", status |-> 200, ctype |-> "text/html", body |-> b] :
            b \in {NotJson, JsonObject([audio_url |-> "u1"])}}

\* what the upstream can answer to the GET of health_check (app.py:98): the call
\* raises, or it completes with a status code
HealthOutcomes ==
    {[kind |-> "exception"]}
    \cup {[kind |-> "response", status |-> st] : st \in {200, 204, 429, 500}}

----------------------------------------------------------------------------
(* What a client or the upstream can send to POST /callback (data: dict) *)

\* the payload with identifier and URL nested under the data key
NestedPayload(t, u) == [data |-> [id |-> t, audio_url |-> u]]

\* flat payloads with both keys (values possibly empty), with a key missing, with a
\* null value, the empty object, and nested payloads
CallbackPayloads ==
    {[id |-> t, audio_url |-> u] : t \in TaskIds \cup {""}, u \in URLs \cup {""}}
    \cup {[id |-> "t1"], [audio_url |-> "u1"], [id |-> None, audio_url |-> "u1"], EmptyDict}
    \cup {NestedPayload(t, "u1") : t \in TaskIds}

----------------------------------------------------------------------------
(* HTTP answers of this service *)

\* a handler's return value, sent with status 200
Ok(b) == [code |-> 200, body |-> b]

\* raise HTTPException(status_code, detail)
HTTPException(c, d) == [code |-> c, detail |-> d]

\* no answer yet: the handler is suspended
Pending == [code |-> 0]

FallbackUrl == "https://www.soundhelix.com/examples/mp3/SoundHelix-Song-1.mp3"

\* app.py:86-89
FallbackResponse ==
    Ok([music_url |-> FallbackUrl,
        message |-> "Suno is unreachable. Here's a sample melody instead!"])

\* app.py:74-77
NoUrlResponse ==
    Ok([music_url |-> None,
        error |-> "No audio URL returned. Try a different prompt or check API status."])

----------------------------------------------------------------------------
(* generate_music, app.py:32-89 *)

\* variant of PromptRejected: the prompt is tested without strip()
PromptRejectedNoStrip(prompt) == prompt = <<>>

\* app.py:34: `if not request.prompt.strip()`
PromptRejected(prompt) == strip(prompt) = <<>>

\* variant of MoreAttempts: the loop has no bound (`while True`)
MoreAttemptsAlways(attempt) == TRUE

\* variant of MoreAttempts: the loop gives up one attempt early
MoreAttemptsShort(attempt) == attempt + 2 < retries

\* variant of MoreAttempts: the loop bound is off by one
MoreAttemptsOffByOne(attempt) == attempt < retries

\* app.py:49: `for attempt in range(retries)`: is there an iteration after `attempt`
MoreAttempts(attempt) == attempt + 1 < retries

\* variant of AttemptOutcome: a parsed answer without audio URL is retried like a
\* failed attempt
AttemptOutcomeRetriesNoUrl(response) ==
    IF response.kind = "exception"
    THEN [kind |-> "retry"]
    ELSE IF response.ctype = "text/html" \/ response.status # 200
    THEN [kind |-> "retry"]
    ELSE IF response.body.kind # "object"
    THEN [kind |-> "retry"]
    ELSE LET music_url == Get(response.body.obj, "audio_url")
         IN IF ~Truthy(music_url)
            THEN [kind |-> "retry"]
            ELSE [kind |-> "return", resp |-> Ok([music_url |-> music_url])]

\* app.py:50-82, one iteration of the loop once the POST has completed:
\* either the handler returns, or it sleeps 2 s and goes on with the loop
AttemptOutcome(response) ==
    IF response.kind = "exception"
    THEN [kind |-> "retry"]                                    \* except Exception, l.80-82
    ELSE IF response.ctype = "text/html" \/ response.status # 200
    THEN [kind |-> "retry"]                                    \* l.57-60
    ELSE IF response.body.kind = "notjson"
    THEN [kind |-> "retry"]                                    \* response.json() raises, l.64-67
    ELSE IF response.body.kind # "object"
    THEN [kind |-> "retry"]                                    \* data.get raises, caught l.80-82
    ELSE LET music_url == Get(response.body.obj, "audio_url")  \* l.70
         IN IF ~Truthy(music_url)
            THEN [kind |-> "return", resp |-> NoUrlResponse]   \* l.73-77
            ELSE [kind |-> "return", resp |-> Ok([music_url |-> music_url])]  \* l.79

Idle == [pc |-> "idle", attempt |-> 0, calls |-> 0]

\* the upstream accepted the submission and supplied task identifier t
Accepts(response, t) ==
    /\ response.kind = "response"
    /\ response.status = 200
    /\ response.body.kind = "object"
    /\ "data" \in DOMAIN response.body.obj
    /\ response.body.obj.data.id = t

\* POST /generate_music arrives: validation, then the first POST is issued and awaited
GenerateMusic(r, prompt) ==
    /\ reqs[r].pc = "idle"
    /\ IF PromptRejected(prompt)
       THEN /\ last' = [op |-> "generate_music", phase |-> "rejected", prompt |-> prompt,
                        resp |-> HTTPException(400, "Prompt cannot be empty."), calls |-> 0]
            /\ UNCHANGED reqs
       ELSE /\ reqs' = [reqs EXCEPT ![r] = [pc |-> "calling", attempt |-> 0, calls |-> 1]]
            /\ last' = [op |-> "generate_music", phase |-> "started", prompt |-> prompt,
                        req |-> r, resp |-> Pending, calls |-> 1]
    /\ UNCHANGED <<music_store, health, submitted, accepted, log>>

\* `await client.post(...)` completes with `response`; the iteration runs to its
\* return or to its `await asyncio.sleep(2)`
UpstreamResponds(r, response) ==
    /\ reqs[r].pc = "calling"
    /\ LET out == AttemptOutcome(response)
       IN IF out.kind = "return"
          THEN /\ reqs' = [reqs EXCEPT ![r] = Idle]
               /\ last' = [op |-> "generate_music", phase |-> "answered", req |-> r,
                           upstream |-> response, resp |-> out.resp, calls |-> reqs[r].calls]
          ELSE /\ reqs' = [reqs EXCEPT ![r].pc = "sleeping"]
               /\ last' = [op |-> "generate_music", phase |-> "failed", req |-> r,
                           upstream |-> response, resp |-> Pending, calls |-> reqs[r].calls]
    /\ submitted' = submitted \cup {t \in TaskIds : Accepts(response, t)}
    /\ UNCHANGED <<music_store, health, accepted, log>>

\* `await asyncio.sleep(2)` ends: the next iteration issues its POST, or the loop is
\* over and the fallback is returned
SleepEnds(r) ==
    /\ reqs[r].pc = "sleeping"
    /\ IF MoreAttempts(reqs[r].attempt)
       THEN /\ reqs' = [reqs EXCEPT ![r] = [pc |-> "calling", attempt |-> reqs[r].attempt + 1,
                                             calls |-> reqs[r].calls + 1]]
            /\ last' = [op |-> "generate_music", phase |-> "retrying", req |-> r,
                        resp |-> Pending, calls |-> reqs[r].calls + 1]
       ELSE /\ reqs' = [reqs EXCEPT ![r] = Idle]
            /\ last' = [op |-> "generate_music", phase |-> "fallback", req |-> r,
                        resp |-> FallbackResponse, calls |-> reqs[r].calls]
    /\ UNCHANGED <<music_store, health, submitted, accepted, log>>

----------------------------------------------------------------------------
(* home, app.py:90-92 *)

Home ==
    /\ last' = [op |-> "home", resp |-> Ok([message |-> "Backend is working!"])]
    /\ UNCHANGED <<music_store, reqs, health, submitted, accepted, log>>

----------------------------------------------------------------------------
(* health_check, app.py:94-103 *)

\* variant of HealthStatus: every 2xx status counts as online
HealthStatusAny2xx(outcome) ==
    IF outcome.kind = "exception" THEN "unreachable"
    ELSE IF outcome.status >= 200 /\ outcome.status < 300 THEN "online" ELSE "offline"

\* l.96-101: the bare `except:` gives "unreachable", else the status code decides
HealthStatus(outcome) ==
    IF outcome.kind = "exception" THEN "unreachable"
    ELSE IF outcome.status = 200 THEN "online" ELSE "offline"

\* GET /health arrives: the GET to the upstream is issued and awaited
HealthCheck ==
    /\ health = "idle"
    /\ health' = "waiting"
    /\ last' = [op |-> "health_check", phase |-> "started", resp |-> Pending]
    /\ UNCHANGED <<music_store, reqs, submitted, accepted, log>>

HealthResponds(outcome) ==
    /\ health = "waiting"
    /\ health' = "idle"
    /\ last' = [op |-> "health_check", phase |-> "answered", outcome |-> outcome,
                resp |-> Ok([suno_status |-> HealthStatus(outcome)])]
    /\ UNCHANGED <<music_store, reqs, submitted, accepted, log>>

----------------------------------------------------------------------------
(* receive_music, app.py:104-116: no await, so one step *)

\* variant of receive_music: a task identifier that has an entry is refused
receive_music_once(store, data) ==
    LET music_url == Get(data, "audio_url")
        task_id == Get(data, "id")
    IN IF Truthy(task_id) /\ Truthy(music_url) /\ task_id \notin DOMAIN store
       THEN [store |-> SetItem(store, task_id, music_url),
             resp |-> Ok([status |-> "stored", taskId |-> task_id])]
       ELSE [store |-> store,
             resp |-> Ok([status |-> "error", message |-> "Missing taskId or music_url"])]

\* variant of receive_music: setdefault, the first URL stored for a task stays
receive_music_first(store, data) ==
    LET music_url == Get(data, "audio_url")
        task_id == Get(data, "id")
    IN IF Truthy(task_id) /\ Truthy(music_url)
       THEN [store |-> IF task_id \in DOMAIN store THEN store
                       ELSE SetItem(store, task_id, music_url),
             resp |-> Ok([status |-> "stored", taskId |-> task_id])]
       ELSE [store |-> store,
             resp |-> Ok([status |-> "error", message |-> "Missing taskId or music_url"])]

\* variant of receive_music: identifier and URL are read under the data key
receive_music_nested(store, data) ==
    LET inner == IF "data" \in DOMAIN data THEN data.data ELSE EmptyDict
        music_url == Get(inner, "audio_url")
        task_id == Get(inner, "id")
    IN IF Truthy(task_id) /\ Truthy(music_url)
       THEN [store |-> SetItem(store, task_id, music_url),
             resp |-> Ok([status |-> "stored", taskId |-> task_id])]
       ELSE [store |-> store,
             resp |-> Ok([status |-> "error", message |-> "Missing taskId or music_url"])]

\* del d[k]
DelItem(d, k) == [x \in (DOMAIN d) \ {k} |-> d[x]]

\* variant of receive_music: a callback without URL drops the entry of its task
receive_music_clears(store, data) ==
    LET music_url == Get(data, "audio_url")
        task_id == Get(data, "id")
    IN IF Truthy(task_id) /\ Truthy(music_url)
       THEN [store |-> SetItem(store, task_id, music_url),
             resp |-> Ok([status |-> "stored", taskId |-> task_id])]
       ELSE [store |-> DelItem(store, task_id),
             resp |-> Ok([status |-> "error", message |-> "Missing taskId or music_url"])]

\* variant of receive_music: only the task identifier is tested
receive_music_id_only(store, data) ==
    LET music_url == Get(data, "audio_url")
        task_id == Get(data, "id")
    IN IF Truthy(task_id)
       THEN [store |-> SetItem(store, task_id, music_url),
             resp |-> Ok([status |-> "stored", taskId |-> task_id])]
       ELSE [store |-> store,
             resp |-> Ok([status |-> "error", message |-> "Missing taskId or music_url"])]

receive_music(store, data) ==
    LET music_url == Get(data, "audio_url")     \* l.107
        task_id == Get(data, "id")              \* l.108
    IN IF Truthy(task_id) /\ Truthy(music_url)  \* l.110
       THEN [store |-> SetItem(store, task_id, music_url),
             resp |-> Ok([status |-> "stored", taskId |-> task_id])]
       ELSE [store |-> store,
             resp |-> Ok([status |-> "error", message |-> "Missing taskId or music_url"])]

\* the handler's step, but for the log
Callback(data) ==
    LET out == receive_music(music_store, data)
        again == last.op = "callback" /\ last.payload = data
    IN /\ music_store' = out.store
       /\ last' = [op |-> "callback", payload |-> data, resp |-> out.resp,
                   rep |-> IF again THEN 2 ELSE 1,
                   before |-> Get(music_store, Get(data, "id"))]
       /\ accepted' = IF out.resp.body.status = "stored"
                      THEN [accepted EXCEPT ![out.resp.body.taskId] = Get(data, "audio_url")]
                      ELSE accepted
       /\ UNCHANGED <<reqs, health, submitted>>

ReceiveMusic(data) == Callback(data) /\ UNCHANGED log

\* the same step with the log kept, while the log has room
ReceiveMusicLogged(data) ==
    /\ Len(log) < MaxLog
    /\ Callback(data)
    /\ log' = IF last'.resp.body.status = "stored"
              THEN Append(log, <<last'.resp.body.taskId, Get(data, "audio_url")>>)
              ELSE log

----------------------------------------------------------------------------
(* get_music, app.py:117-123: a plain def, one step *)

\* variant of get_music: a missing entry is answered with a not-ready placeholder
get_music_not_ready(store, task_id) ==
    LET music_url == Get(store, task_id)
    IN IF Truthy(music_url)
       THEN Ok([taskId |-> task_id, music_url |-> music_url])
       ELSE Ok([taskId |-> task_id, music_url |-> None, message |-> "Music not ready..."])

get_music(store, task_id) ==
    LET music_url == Get(store, task_id)        \* l.119
    IN IF Truthy(music_url)
       THEN Ok([taskId |-> task_id, music_url |-> music_url])
       ELSE HTTPException(404, "Music not found for this task ID.")

\* variant of GetMusic: the entry is handed out once (music_store.pop)
GetMusicPops(task_id) ==
    /\ last' = [op |-> "get_music", task_id |-> task_id,
                resp |-> get_music(music_store, task_id),
                prev |-> IF last.op = "callback"
                         THEN [op |-> "callback", payload |-> last.payload]
                         ELSE [op |-> last.op]]
    /\ music_store' = DelItem(music_store, task_id)
    /\ UNCHANGED <<reqs, health, submitted, accepted, log>>

GetMusic(task_id) ==
    /\ last' = [op |-> "get_music", task_id |-> task_id,
                resp |-> get_music(music_store, task_id),
                prev |-> IF last.op = "callback"
                         THEN [op |-> "callback", payload |-> last.payload]
                         ELSE [op |-> last.op]]
    /\ UNCHANGED <<music_store, reqs, health, submitted, accepted, log>>

----------------------------------------------------------------------------
(* The service *)

Init ==
    /\ music_store = EmptyDict
    /\ reqs = [r \in Reqs |-> Idle]
    /\ health = "idle"
    /\ last = [op |-> "none"]
    /\ submitted = {}
    /\ accepted = [t \in TaskIds |-> None]
    /\ log = <<>>

\* the service with the generate_music handlers of R
Serve(R) ==
    \/ \E r \in R, prompt \in Prompts : GenerateMusic(r, prompt)
    \/ \E r \in R, response \in UpstreamResponses : UpstreamResponds(r, response)
    \/ \E r \in R : SleepEnds(r)
    \/ Home
    \/ HealthCheck
    \/ \E outcome \in HealthOutcomes : HealthResponds(outcome)
    \/ \E data \in CallbackPayloads : ReceiveMusic(data)
    \/ \E task_id \in TaskIds : GetMusic(task_id)

\* one generate_music request at a time, interleaved at its awaits with every other
\* handler
Next == Serve(Single)

Spec == Init /\ [][Next]_vars

\* Several requests in flight: both generate_music handlers, each suspended at its POST
\* or at its 2 s wait, with callbacks and lookups running in between. One accepted
\* prompt, a failing and a succeeding upstream answer, and callbacks that overwrite an
\* entry, add a second one, or are refused.
ConcurrentPrompts == {<<"a">>}

ConcurrentResponses ==
    {TransportError,
     [kind |-> "response", status |-> 200, ctype |-> "application/json",
      body |-> JsonObject([audio_url |-> "u1"])]}

ConcurrentPayloads ==
    {[id |-> "t1", audio_url |-> "u1"], [id |-> "t1", audio_url |-> "u2"],
     [id |-> "t2", audio_url |-> "u1"], [id |-> "t1"]}

NextConcurrent ==
    \/ \E r \in Reqs, prompt \in ConcurrentPrompts : GenerateMusic(r, prompt)
    \/ \E r \in Reqs, response \in ConcurrentResponses : UpstreamResponds(r, response)
    \/ \E r \in Reqs : SleepEnds(r)
    \/ \E data \in ConcurrentPayloads : ReceiveMusicLogged(data)
    \/ \E task_id \in TaskIds : GetMusic(task_id)

SpecConcurrent == Init /\ [][NextConcurrent]_vars

\* The same, with what the event loop and the timeouts give a suspended handler: an
\* awaited POST completes or raises after Timeout(10.0, connect=5.0) (app.py:44), and
\* an awaited asyncio.sleep(2) ends
SpecLive ==
    /\ SpecConcurrent
    /\ \A r \in Reqs :
        /\ WF_vars(\E response \in ConcurrentResponses : UpstreamResponds(r, response))
        /\ WF_vars(SleepEnds(r))

----------------------------------------------------------------------------
(* Properties *)

\* the last step handed an upstream response to a generate_music handler
UpstreamSeen == last.op = "generate_music" /\ last.phase \in {"answered", "failed"}

\* a prompt that is empty or made of whitespace only
Blank(p) == \A i \in 1..Len(p) : p[i] \in Whitespace

\* C1: a request whose prompt is empty or whitespace-only is answered 400 with no
\* outbound call made for it: no handler is left waiting on the upstream, and
\* music_store is as before.
C1_BlankPromptRejected ==
    [][(/\ last'.op = "generate_music"
        /\ last'.phase \in {"rejected", "started"}
        /\ Blank(last'.prompt))
       => (/\ last'.resp.code = 400
           /\ last'.calls = 0
           /\ reqs' = reqs
           /\ music_store' = music_store)]_vars

C1_Witness ==
    /\ last.op = "generate_music"
    /\ last.phase = "rejected"
    /\ Len(last.prompt) > 0
    /\ last.resp.code = 400

\* an attempt that fails, as the claim lists the failures
ClaimedFailure(response) ==
    \/ response.kind = "exception"
    \/ response.status # 200
    \/ response.ctype = "text/html"
    \/ response.body.kind = "notjson"

\* the fixed fallback answer: status 200, the SoundHelix URL and a message
IsFallback(resp) ==
    /\ resp.code = 200
    /\ resp.body.music_url = FallbackUrl
    /\ "message" \in DOMAIN resp.body

\* C2: a request makes at most 3 outbound calls; a failed attempt never ends the
\* request with an error (the handler goes to its 2 s wait), and when the wait after
\* the third call ends the answer is the fallback URL with a message.
C2_ThreeCallsThenFallback ==
    /\ [](\A r \in Reqs : reqs[r].calls <= 3)
    /\ [](last.op = "generate_music" => last.calls <= 3)
    /\ []((UpstreamSeen /\ ClaimedFailure(last.upstream))
            => (last.resp = Pending /\ reqs[last.req].pc = "sleeping"))
    /\ [][\A r \in Reqs :
            (reqs[r].pc = "sleeping" /\ reqs[r].calls = 3 /\ reqs'[r] # reqs[r])
            => (IsFallback(last'.resp) /\ last'.req = r /\ reqs'[r].pc = "idle")]_vars

C2_Witness ==
    /\ last.op = "generate_music"
    /\ last.phase = "fallback"
    /\ last.calls = 3
    /\ IsFallback(last.resp)

\* the upstream's body is {code: 429}
QuotaSignalled(response) ==
    /\ response.kind = "response"
    /\ response.body.kind = "object"
    /\ "code" \in DOMAIN response.body.obj
    /\ response.body.obj.code = 429

\* C3: when the upstream answers an attempt with {code: 429}, generate_music gives no
\* answer other than the fallback URL with a message, status 200.
C3_QuotaYieldsFallback ==
    (UpstreamSeen /\ QuotaSignalled(last.upstream))
    => (last.resp = Pending \/ IsFallback(last.resp))

\* C4: when the upstream accepts the submission and supplies task identifier t, the
\* answer of generate_music carries a non-empty task identifier equal to t.
C4_TaskIdReturnedVerbatim ==
    \A t \in TaskIds :
        (UpstreamSeen /\ Accepts(last.upstream, t))
        => (/\ last.resp.code = 200
            /\ "taskId" \in DOMAIN last.resp.body
            /\ last.resp.body.taskId = t
            /\ t # "")

\* the upstream answered 200 with a JSON object
ParsedObject(response) ==
    /\ response.kind = "response"
    /\ response.status = 200
    /\ response.ctype # "text/html"
    /\ response.body.kind = "object"

\* ... in which neither a task identifier nor an audio URL is found
NoResultField(response) ==
    /\ ParsedObject(response)
    /\ "data" \notin DOMAIN response.body.obj
    /\ "audio_url" \notin DOMAIN response.body.obj

C6_CallbackIdempotent ==
    [][(/\ last.op = "callback"
        /\ last'.op = "callback"
        /\ last'.payload = last.payload)
       => (/\ music_store' = music_store
           /\ last'.resp = last.resp
           /\ (last'.resp.body.status = "stored"
                => music_store'[last'.payload.id] = last'.payload.audio_url))]_vars

C6_Witness ==
    /\ last.op = "callback"
    /\ last.rep = 2
    /\ last.resp.body.status = "stored"
    /\ music_store[last.payload.id] = last.payload.audio_url

\* C7: the store holds for each task identifier exactly the URL of the latest callback
\* answered "stored" for it (no entry when there was none), and a callback whose
\* identifier is not t leaves the entry of t as it was.
C7_LastWriteWins ==
    /\ [](\A t \in TaskIds :
            IF accepted[t] = None
            THEN t \notin DOMAIN music_store
            ELSE t \in DOMAIN music_store /\ music_store[t] = accepted[t])
    /\ [](DOMAIN music_store \subseteq TaskIds)
    /\ [][\A t \in TaskIds :
            (last'.op = "callback" /\ Get(last'.payload, "id") # t)
            => Get(music_store', t) = Get(music_store, t)]_vars

\* a stored URL was replaced by another one while the other identifier kept its entry
C7_Witness ==
    /\ last.op = "callback"
    /\ last.resp.body.status = "stored"
    /\ last.before \in URLs
    /\ last.before # music_store[last.payload.id]
    /\ DOMAIN music_store = TaskIds

\* the last step was a lookup of a submitted task identifier with no stored entry
LookupBeforeCallback ==
    /\ last.op = "get_music"
    /\ last.task_id \in submitted
    /\ last.task_id \notin DOMAIN music_store

\* C8 as claimed: a lookup of a submitted task identifier before any callback for it
\* was stored answers 200 with the not-ready placeholder.
C8_LookupNotReady ==
    LookupBeforeCallback
    => (/\ last.resp.code = 200
        /\ last.resp.body.taskId = last.task_id
        /\ last.resp.body.music_url = None
        /\ "message" \in DOMAIN last.resp.body)

\* C8 as amended: such a lookup fails with status 404 and the detail "Music not found
\* for this task ID."; there is no not-ready placeholder.
C8_LookupNotFound ==
    LookupBeforeCallback
    => last.resp = [code |-> 404, detail |-> "Music not found for this task ID."]

C8_Witness == LookupBeforeCallback /\ last.resp.code = 404

\* C9 as claimed: after a callback with the nested payload {data: {id: t, audio_url:
\* u}}, a following lookup of t answers {taskId: t, music_url: u}.
C9_NestedCallbackThenLookup ==
    \A t \in TaskIds, u \in URLs :
        (/\ last.op = "get_music"
         /\ last.task_id = t
         /\ last.prev.op = "callback"
         /\ last.prev.payload = NestedPayload(t, u))
        => last.resp = [code |-> 200, body |-> [taskId |-> t, music_url |-> u]]

\* C9 as amended: after a callback with the flat payload {id: t, audio_url: u}, t and
\* u non-empty, the pair is stored and a following lookup of t answers {taskId: t,
\* music_url: u}.
C9_FlatCallbackThenLookup ==
    /\ \A t \in TaskIds, u \in URLs :
        (last.op = "callback" /\ last.payload = [id |-> t, audio_url |-> u])
        => (t \in DOMAIN music_store /\ music_store[t] = u)
    /\ \A t \in TaskIds, u \in URLs :
        (/\ last.op = "get_music"
         /\ last.task_id = t
         /\ last.prev.op = "callback"
         /\ last.prev.payload = [id |-> t, audio_url |-> u])
        => last.resp = [code |-> 200, body |-> [taskId |-> t, music_url |-> u]]

C9_Witness ==
    /\ last.op = "get_music"
    /\ last.prev.op = "callback"
    /\ last.prev.payload = [id |-> last.task_id, audio_url |-> "u2"]
    /\ last.resp.code = 200

\* key k of payload p holds a non-empty value
Present(p, k) == k \in DOMAIN p /\ p[k] \notin {None, ""}

\* C10: a callback whose payload lacks a non-empty id or a non-empty audio_url at its
\* top level is answered 200 with {status: "error", message}; music_store is unchanged
\* and no work is left behind (no handler is started, nothing is recorded as accepted).
C10_BadCallbackAcknowledged ==
    [][(/\ last'.op = "callback"
        /\ ~(Present(last'.payload, "id") /\ Present(last'.payload, "audio_url")))
       => (/\ last'.resp.code = 200
           /\ DOMAIN last'.resp.body = {"status", "message"}
           /\ last'.resp.body.status = "error"
           /\ UNCHANGED <<music_store, reqs, health, submitted, accepted>>)]_vars

C10_Witness ==
    /\ last.op = "callback"
    /\ ~Present(last.payload, "audio_url")
    /\ Present(last.payload, "id")
    /\ last.resp.body.status = "error"
    /\ music_store # EmptyDict

\* C11: an entry of music_store is never removed: a key stays a key in every step, so a
\* lookup that succeeds keeps succeeding, and the URL of t changes only in a step that
\* is a callback for t answered "stored".
C11_EntryNeverRemoved ==
    [][\A t \in TaskIds :
        /\ t \in DOMAIN music_store => t \in DOMAIN music_store'
        /\ get_music(music_store, t).code = 200 => get_music(music_store', t).code = 200
        /\ (t \in DOMAIN music_store /\ music_store'[t] # music_store[t])
            => (/\ last'.op = "callback"
                /\ last'.resp.body.status = "stored"
                /\ last'.resp.body.taskId = t)]_vars

\* a callback for a stored task that is refused leaves the entry in place
C11_Witness ==
    /\ last.op = "callback"
    /\ last.resp.body.status = "error"
    /\ Get(last.payload, "id") \in DOMAIN music_store
    /\ last.before \in URLs

\* C12: health_check always answers 200 with a status: "online" exactly when the
\* upstream call completed with status code 200, "offline" exactly when it completed
\* with another status code, "unreachable" exactly when the call raised.
C12_HealthClassified ==
    (last.op = "health_check" /\ last.phase = "answered")
    => (/\ last.resp.code = 200
        /\ DOMAIN last.resp.body = {"suno_status"}
        /\ last.resp.body.suno_status \in {"online", "offline", "unreachable"}
        /\ last.resp.body.suno_status = "online"
            <=> (last.outcome.kind = "response" /\ last.outcome.status = 200)
        /\ last.resp.body.suno_status = "offline"
            <=> (last.outcome.kind = "response" /\ last.outcome.status # 200)
        /\ last.resp.body.suno_status = "unreachable"
            <=> last.outcome.kind = "exception")

C12_Witness ==
    /\ last.op = "health_check"
    /\ last.phase = "answered"
    /\ last.outcome.kind = "response"
    /\ last.outcome.status = 204
    /\ last.resp.body.suno_status = "offline"

\* the index of the last pair of l written for task t
LastWrite(l, t) == CHOOSE i \in DOMAIN l : l[i][1] = t /\ \A j \in DOMAIN l : l[j][1] = t => j <= i

\* the store that the writes of l give when made one after another
Replayed(l) == [t \in {l[i][1] : i \in DOMAIN l} |-> l[LastWrite(l, t)][2]]

\* C13: with both generate_music handlers in flight and callbacks and lookups running
\* between their steps, music_store is always the store that the stored callbacks give
\* when applied one after another in the order their handlers ran; a step of another
\* handler never changes it.
C13_StoreIsSerialReplay ==
    /\ [](music_store = Replayed(log))
    /\ [][music_store' # music_store => (last'.op = "callback" /\ Len(log') = Len(log) + 1)]_vars

C13_Witness ==
    /\ reqs["r1"].pc = "calling"
    /\ reqs["r2"].pc = "sleeping"
    /\ Len(log) >= 2
    /\ log[1][1] = log[2][1]
    /\ log[1][2] # log[2][2]
    /\ last.op = "get_music"
    /\ last.resp.code = 200

\* C14: a generate_music request that was accepted (non-empty prompt) eventually
\* completes: its handler comes back to rest, and it does so only by answering that
\* request with status 200; while it runs, the attempt number stays below 3 and counts
\* the calls made, so the loop cannot go round forever.
C14_RequestCompletes ==
    /\ \A r \in Reqs : (reqs[r].pc # "idle") ~> (reqs[r].pc = "idle")
    /\ [](\A r \in Reqs :
            reqs[r].pc # "idle"
            => (reqs[r].attempt < 3 /\ reqs[r].calls = reqs[r].attempt + 1))
    /\ [][\A r \in Reqs :
            (reqs[r].pc # "idle" /\ reqs'[r].pc = "idle")
            => (/\ last'.op = "generate_music"
                /\ last'.req = r
                /\ last'.phase \in {"answered", "fallback"}
                /\ last'.resp.code = 200)]_vars

\* a request that completed on its third attempt
C14_Witness ==
    /\ last.op = "generate_music"
    /\ last.phase = "answered"
    /\ last.calls = 3
    /\ reqs[last.req].pc = "idle"

\* C15: a callback with a non-empty id t and a non-empty audio_url u at its top level is
\* answered {status: "stored", taskId: t}; and as long as u is the URL of the latest
\* stored callback for t, a lookup of t answers {taskId: t, music_url: u}.
C15_StoredCallbackServed ==
    /\ (last.op = "callback" /\ Present(last.payload, "id") /\ Present(last.payload, "audio_url"))
        => last.resp = [code |-> 200, body |-> [status |-> "stored", taskId |-> last.payload.id]]
    /\ \A t \in TaskIds :
        (last.op = "get_music" /\ last.task_id = t /\ accepted[t] # None)
        => last.resp = [code |-> 200, body |-> [taskId |-> t, music_url |-> accepted[t]]]

\* a lookup served some steps after the callback, with a generate_music step in between
C15_Witness ==
    /\ last.op = "get_music"
    /\ last.prev.op = "generate_music"
    /\ accepted[last.task_id] = "u2"
    /\ last.resp.code = 200

\* C16 as claimed: an attempt answered 200 with a non-HTML content type and a body that
\* parses as JSON ends the request at once.
C16_ParseableJsonStopsLoop ==
    (/\ UpstreamSeen
     /\ last.upstream.kind = "response"
     /\ last.upstream.status = 200
     /\ last.upstream.ctype # "text/html"
     /\ last.upstream.body.kind # "notjson")
    => (last.phase = "answered" /\ reqs[last.req].pc = "idle")

\* C16 as amended: an attempt answered 200 with a non-HTML content type and a body that
\* parses to a JSON object ends the request at once, with no further call: with
\* {music_url: null, error} and not the fallback when the object has no audio_url, with
\* the object's audio_url otherwise. The fallback URL is answered only when the loop is
\* over, after 3 calls.
C16_ObjectStopsLoop ==
    /\ (UpstreamSeen /\ ParsedObject(last.upstream))
        => (/\ last.phase = "answered"
            /\ reqs[last.req] = Idle
            /\ ~IsFallback(last.resp)
            /\ last.resp.body.music_url =
                 IF Present(last.upstream.body.obj, "audio_url")
                 THEN last.upstream.body.obj.audio_url ELSE None
            /\ last.resp.body.music_url = None => "error" \in DOMAIN last.resp.body)
    /\ (last.op = "generate_music" /\ IsFallback(last.resp))
        => (last.phase = "fallback" /\ last.calls = 3)

\* the second attempt is answered with an object without audio_url
C16_Witness ==
    /\ UpstreamSeen
    /\ ParsedObject(last.upstream)
    /\ last.calls = 2
    /\ last.resp.body.music_url = None

\* C17: music_store changes only in a callback step answered "stored"; the URL that
\* generate_music answers is the upstream's audio_url, null or the fallback, whatever
\* the store holds; and a submitted task with no stored callback is not found by lookup.
C17_OnlyCallbackWrites ==
    /\ [][music_store' # music_store
            => (last'.op = "callback" /\ last'.resp.body.status = "stored")]_vars
    /\ []((last.op = "generate_music" /\ last.phase = "answered")
            => last.resp.body.music_url \in {None, Get(last.upstream.body.obj, "audio_url")})
    /\ [](\A t \in submitted :
            accepted[t] = None => get_music(music_store, t).code = 404)

\* generate_music answers a URL while the store holds another task's entry and a
\* submitted task is still unresolved
C17_Witness ==
    /\ last.op = "generate_music"
    /\ last.phase = "answered"
    /\ last.resp.body.music_url \in URLs
    /\ music_store # EmptyDict
    /\ \E t \in submitted : t \notin DOMAIN music_store

\* C18: every key of music_store is a non-empty identifier and every value a non-empty
\* URL; a lookup answers the stored URL exactly when its identifier is a key, and 404
\* exactly when it is not.
C18_StoreWellFormed ==
    /\ \A k \in DOMAIN music_store :
        k \notin {None, ""} /\ music_store[k] \notin {None, ""}
    /\ last.op = "get_music"
        => IF last.task_id \in DOMAIN music_store
           THEN last.resp = [code |-> 200,
                             body |-> [taskId |-> last.task_id,
                                       music_url |-> music_store[last.task_id]]]
           ELSE last.resp.code = 404

\* a lookup of an absent key while another key is stored
C18_Witness ==
    /\ last.op = "get_music"
    /\ last.resp.code = 404
    /\ music_store # EmptyDict
    /\ last.prev.op = "get_music"

====
